---------------------------- MODULE Spec2Model ----------------------------
(***************************************************************************)
(* Model of the to-do API (FastAPI + SQLAlchemy + python-jose).            *)
(*                                                                         *)
(* The database is the shared state: the tables `users` and `todos` with   *)
(* the constraints the schema classes declare (primary keys, the unique    *)
(* username, the foreign key todos.user_id -> users.id).  Every request    *)
(* owns one SQLAlchemy session (autocommit and autoflush off), so a        *)
(* handler's writes reach the database at db.commit(); every SQL statement *)
(* (a query's first()/all(), the statements of a flush, a refresh) is one  *)
(* atomic step that sees the rows committed so far, and the statements of  *)
(* concurrent requests interleave freely.                                  *)
(*                                                                         *)
(* SQLAlchemy's unit of work: an UPDATE writes the columns whose value     *)
(* differs from the loaded one and raises StaleDataError when its row is   *)
(* gone; a DELETE that matches no row only warns; deleting a User first    *)
(* loads and deletes its todos (cascade "all, delete-orphan").             *)
(*                                                                         *)
(* python-jose: jwt.encode turns a naive datetime into a timestamp as if   *)
(* it were UTC; jwt.decode rejects a token whose exp is before the UTC     *)
(* clock.  The clock `now` is UTC, `tz` is the offset of the server's      *)
(* local time, which datetime.now() returns.                               *)
(*                                                                         *)
(* The specifications below are slices of the service: each serves a       *)
(* subset of the endpoints, in one or in two concurrent request slots.     *)
(***************************************************************************)
EXTENDS Integers, FiniteSets, Sequences, TLC

(* ------------------------------ bounds -------------------------------- *)

\* number of user ids uuid4 hands out
MaxUsers == 2

\* number of todo ids uuid4 hands out
MaxTodos == 2

\* number of tokens the server issues
MaxTokens == 2

\* last instant of the (UTC) clock
MaxTime == 2

\* the concurrently served requests
Reqs == {1, 2}

\* ACCESS_TOKEN_EXPIRE_MINUTES, in clock units
ACCESS_TOKEN_EXPIRE_MINUTES == 1

\* offsets of the server's local time zone from UTC, in clock units
TzOffsets == {-2, 0, 1}

Names == {"alice", "bob"}

Passwords == {"p1", "p2"}

\* task texts a client sends; "" is the empty string
Tasks == {"", "t1"}

\* the absent value (Python's None) of a string, and of an id
NULL == "NULL"

NoId == 0

(* ----------------------- library functions ---------------------------- *)

\* zxcvbn's results: score 0..4, feedback.warning (a string), feedback.suggestions (a list)
PolicyResults ==
    [score : 0..4, warning : {"", "w"}, suggestions : {<<>>, <<"s">>}]

\* (faulty variant: the score alone decides)
WeakNoFeedbackCheck(chk) == chk.score < 3

\* the condition of `if pswd_check['score'] < 3 or warning or suggestions`
Weak(chk) ==
    chk.score < 3 \/ chk.warning # "" \/ chk.suggestions # <<>>

\* bcrypt_context.hash / bcrypt_context.verify
Hash(p) == [alg |-> "bcrypt", of |-> p]

\* (faulty variant: the password is not compared)
VerifyAnything(p, h) == TRUE

Verify(p, h) == h = Hash(p)

\* jwt.encode of the claims under SECRET_KEY
JwtEncode(sub, id, exp) == [sub |-> sub, id |-> id, exp |-> exp, sig |-> "ok"]

\* (faulty variant: exp is not verified)
JwtDecodeNoExpiry(tok, utcnow) == tok.sig = "ok"

\* jwt.decode succeeds: the signature verifies and exp is not before the UTC clock
JwtDecodeOK(tok, utcnow) == tok.sig = "ok" /\ ~(tok.exp < utcnow)

\* the request carries no Authorization header
NoToken == [sub |-> NULL, id |-> NoId, exp |-> 0, sig |-> "none"]

\* tokens a client can make up: any claims under a wrong key, and tokens
\* under the server's key that lack a claim
Crafted ==
    {NoToken}
    \cup [sub : {"alice"}, id : {1}, exp : {MaxTime + 3}, sig : {"bad"}]
    \cup [sub : {NULL}, id : {1}, exp : {MaxTime + 3}, sig : {"ok"}]
    \cup [sub : {"alice"}, id : {NoId}, exp : {MaxTime + 3}, sig : {"ok"}]

(* ------------------------------ state --------------------------------- *)

VARIABLES
    users,     \* rows of table users: [id, username, password]
    todos,     \* rows of table todos: [id, task, completed, user_id]
    nextUid,   \* the next value uuid4 gives a user
    nextTid,   \* the next value uuid4 gives a todo
    now,       \* the UTC clock
    tz,        \* the server's local-time offset from UTC
    issued,    \* the tokens create_access_token has returned
    req        \* the requests being served

vars == <<users, todos, nextUid, nextTid, now, tz, issued, req>>

db == <<users, todos, nextUid, nextTid>>

Idle ==
    [kind |-> "none", pc |-> "idle", sess |-> "none", token |-> NoToken,
     ident |-> {}, username |-> NULL, password1 |-> NULL, password2 |-> NULL,
     task |-> NULL, completed |-> {}, todo_id |-> NoId,
     policy |-> {}, obj |-> {}, loaded |-> {}, stmts |-> 0,
     status |-> 0, detail |-> NULL, ruser |-> NULL, rtoken |-> {}, rtodos |-> {}]

Init ==
    /\ users = {}
    /\ todos = {}
    /\ nextUid = 1
    /\ nextTid = 1
    /\ now = 0
    /\ tz \in TzOffsets
    /\ issued = {}
    /\ req = [r \in Reqs |-> Idle]

(* ------------------------ storage primitives -------------------------- *)

UsersById(id) == {u \in users : u.id = id}

UsersByName(name) == {u \in users : u.username = name}

\* (faulty variant: no unique index)
UniqueNotEnforced(id, name) == FALSE

\* the unique index on users.username rejects a row (of user `id`) named `name`
UniqueViolation(id, name) ==
    \E u \in users : u.username = name /\ u.id # id

\* (faulty variant: no foreign key)
FkInsertNotEnforced(uid) == FALSE

\* the foreign key todos.user_id -> users.id rejects a todo of user `uid`
FkInsertViolation(uid) == UsersById(uid) = {}

\* (faulty variant: no foreign key)
FkDeleteNotEnforced(uid, remaining) == FALSE

\* the foreign key rejects deleting user `uid` while rows of `remaining` name it
FkDeleteViolation(uid, remaining) ==
    \E t \in remaining : t.user_id = uid

\* (faulty variant: the owner filter is missing)
OwnedAnyOwner(tid, uid) == {t \in todos : t.id = tid}

\* the rows `query.filter(Todo.id == todo_id, Todo.user_id == user["id"])` selects
Owned(tid, uid) == {t \in todos : t.id = tid /\ t.user_id = uid}

\* (faulty variant: the owner filter is missing)
ListAllUsers(uid) == todos

\* the rows `query.filter(Todo.user_id == user["id"])` selects
ListOf(uid) == {t \in todos : t.user_id = uid}

(* ------------------------ request bookkeeping ------------------------- *)

\* (faulty variant: db.close() without try/finally, skipped when the
\* request raises)
DoneClosesOnReturn(q, status, detail) ==
    [q EXCEPT !.pc = "done", !.status = status, !.detail = detail,
              !.sess = IF status < 400 THEN "closed" ELSE @,
              !.obj = {}, !.loaded = {}]

\* the response leaves; get_db's finally closes the session
Done(q, status, detail) ==
    [q EXCEPT !.pc = "done", !.status = status, !.detail = detail,
              !.sess = "closed", !.obj = {}, !.loaded = {}]

At(r, kind, pc) == req[r].kind = kind /\ req[r].pc = pc

Set(r, q) == req' = [req EXCEPT ![r] = q]

\* the id of the identity get_current_user resolved
Uid(r) == (CHOOSE i \in req[r].ident : TRUE).id

InFlight(kinds) ==
    Cardinality({r \in Reqs : req[r].kind \in kinds /\ req[r].pc \notin {"idle", "done"}})

(* ------------------------ identity resolution ------------------------- *)

\* create_access_token: exp is datetime.now() (naive local time) + the TTL,
\* which jwt.encode turns into a timestamp as if it were UTC
create_access_token(username, user_id) ==
    JwtEncode(username, user_id, (now + tz) + ACCESS_TOKEN_EXPIRE_MINUTES)

\* (faulty variant: the user is not looked up)
ResolveNoLookup(tok) ==
    IF JwtDecodeOK(tok, now) /\ tok.sub # NULL /\ tok.id # NoId
    THEN {[username |-> tok.sub, id |-> tok.id]}
    ELSE {}

\* (faulty variant: the user is looked up by the token's subject)
ResolveByName(tok) ==
    IF /\ JwtDecodeOK(tok, now)
       /\ tok.sub # NULL
       /\ tok.id # NoId
       /\ UsersByName(tok.sub) # {}
    THEN {[username |-> tok.sub, id |-> tok.id]}
    ELSE {}

\* (faulty variant: the stored username has to be the token's subject)
ResolveMatchingName(tok) ==
    IF /\ JwtDecodeOK(tok, now)
       /\ tok.sub # NULL
       /\ tok.id # NoId
       /\ \E u \in UsersById(tok.id) : u.username = tok.sub
    THEN {[username |-> tok.sub, id |-> tok.id]}
    ELSE {}

\* get_current_user's decision: the identity it returns, or none (401)
Resolve(tok) ==
    IF /\ JwtDecodeOK(tok, now)
       /\ tok.sub # NULL
       /\ tok.id # NoId
       /\ UsersById(tok.id) # {}
    THEN {[username |-> tok.sub, id |-> tok.id]}
    ELSE {}

\* the request `q` after get_db opened its session and get_current_user ran
get_current_user(q) ==
    LET looked == JwtDecodeOK(q.token, now) /\ q.token.sub # NULL /\ q.token.id # NoId
        q1 == [q EXCEPT !.sess = "open", !.stmts = IF looked THEN 1 ELSE 0]
        id == Resolve(q.token)
    IN  IF id = {}
        THEN Done(q1, 401, "Could not validate user")
        ELSE [q1 EXCEPT !.ident = id, !.pc = "handler"]

\* a request of a protected endpoint arrives with any token a client can hold
Arrive(r, q, T) ==
    /\ req[r].pc = "idle"
    /\ \E tok \in issued \cup T.forged :
          Set(r, get_current_user([q EXCEPT !.token = tok]))
    /\ UNCHANGED <<db, now, tz, issued>>

\* room for one more issued token / user id / todo id within the bounds
TokenRoom == Cardinality(issued) + InFlight({"register", "login"}) < MaxTokens

UserRoom == nextUid + InFlight({"register"}) <= MaxUsers

TodoRoom == nextTid + InFlight({"create_todo"}) <= MaxTodos

(* --------------------------- routers/auth.py -------------------------- *)

\* GET /auth/ : the handler returns the username of the resolved identity
get_user(r, T) ==
    /\ req[r].pc = "idle"
    /\ \E tok \in issued \cup T.forged :
          LET q == get_current_user([Idle EXCEPT !.kind = "get_user", !.token = tok])
          IN  Set(r, IF q.pc = "done" THEN q
                     ELSE [Done(q, 200, NULL) EXCEPT
                             !.ruser = (CHOOSE i \in q.ident : TRUE).username])
    /\ UNCHANGED <<db, now, tz, issued>>

\* (faulty variant: zxcvbn runs before the passwords are compared)
RegisterChecksPolicyFirst(q, exists, chk) ==
    IF exists THEN Done(q, 400, "User already exists")
    ELSE IF Weak(chk)
    THEN Done([q EXCEPT !.policy = {chk}], 400, "Weak password")
    ELSE IF q.password1 # q.password2
    THEN Done([q EXCEPT !.policy = {chk}], 400, "Passwords do not match")
    ELSE [q EXCEPT !.policy = {chk}, !.pc = "commit"]

\* (faulty variant: the passwords are not compared)
RegisterChecksNoMismatch(q, exists, chk) ==
    IF exists THEN Done(q, 400, "User already exists")
    ELSE IF Weak(chk)
    THEN Done([q EXCEPT !.policy = {chk}], 400, "Weak password")
    ELSE [q EXCEPT !.policy = {chk}, !.pc = "commit"]

\* register, lines 52-63: the pre-check query, then the checks of the body
RegisterChecks(q, exists, chk) ==
    IF exists THEN Done(q, 400, "User already exists")
    ELSE IF q.password1 # q.password2
    THEN Done(q, 400, "Passwords do not match")
    ELSE IF Weak(chk)
    THEN Done([q EXCEPT !.policy = {chk}], 400, "Weak password")
    ELSE [q EXCEPT !.policy = {chk}, !.pc = "commit"]

\* POST /auth/register arrives: get_db, the pre-check and the checks
Register(r, T) ==
    /\ req[r].pc = "idle"
    /\ UserRoom /\ TokenRoom
    /\ \E name \in T.names, p1 \in T.passwords, p2 \in T.passwords, chk \in T.policies :
          LET q == [Idle EXCEPT !.kind = "register", !.sess = "open", !.stmts = 1,
                                !.username = name, !.password1 = p1, !.password2 = p2]
          IN  Set(r, RegisterChecks(q, UsersByName(name) # {}, chk))
    /\ UNCHANGED <<db, now, tz, issued>>

\* register, lines 63-70: the INSERT of db.commit(), refresh, the token
RegisterCommit(r) ==
    /\ At(r, "register", "commit")
    /\ LET q == [req[r] EXCEPT !.stmts = @ + 1]
           tok == create_access_token(q.username, nextUid)
       IN  IF UniqueViolation(nextUid, q.username)
           THEN /\ Set(r, Done(q, 400, "IntegrityError"))
                /\ UNCHANGED <<db, issued>>
           ELSE /\ users' = users \cup {[id |-> nextUid, username |-> q.username,
                                          password |-> Hash(q.password1)]}
                /\ nextUid' = nextUid + 1
                /\ issued' = issued \cup {tok}
                /\ Set(r, [Done(q, 201, NULL) EXCEPT !.ruser = q.username,
                                                      !.rtoken = {tok}])
                /\ UNCHANGED <<todos, nextTid>>
    /\ UNCHANGED <<now, tz>>

\* authenticate_user: the user of that name whose password verifies, or an error
authenticate_user(username, password) ==
    LET found == UsersByName(username)
    IN  IF found = {} THEN [ok |-> FALSE, detail |-> "User does not exist", user |-> {}]
        ELSE IF ~Verify(password, (CHOOSE u \in found : TRUE).password)
        THEN [ok |-> FALSE, detail |-> "Incorrect password", user |-> {}]
        ELSE [ok |-> TRUE, detail |-> NULL, user |-> found]

\* POST /auth/token
login(r, T) ==
    /\ req[r].pc = "idle"
    /\ TokenRoom
    /\ \E name \in T.names, pw \in T.passwords :
          LET q == [Idle EXCEPT !.kind = "login", !.sess = "open", !.stmts = 1,
                                !.username = name, !.password1 = pw]
              a == authenticate_user(name, pw)
              u == CHOOSE x \in a.user : TRUE
              tok == create_access_token(u.username, u.id)
          IN  IF ~a.ok
              THEN Set(r, Done(q, 400, a.detail)) /\ UNCHANGED issued
              ELSE /\ Set(r, [Done(q, 200, NULL) EXCEPT !.rtoken = {tok}])
                   /\ issued' = issued \cup {tok}
    /\ UNCHANGED <<db, now, tz>>

\* PUT /auth/update arrives: get_db and get_current_user
UpdateUserArrive(r, T) ==
    \E name \in T.names, p1 \in T.passwords, p2 \in T.passwords :
        Arrive(r, [Idle EXCEPT !.kind = "update_user", !.username = name,
                               !.password1 = p1, !.password2 = p2], T)

\* (faulty variant: zxcvbn runs before the passwords are compared)
UpdateChecksPolicyFirst(q, chk, found) ==
    IF Weak(chk)
    THEN Done([q EXCEPT !.policy = {chk}], 400, "Weak password")
    ELSE IF q.password1 # q.password2
    THEN Done([q EXCEPT !.policy = {chk}], 400, "Passwords do not match")
    ELSE IF found = {}
    THEN Done([q EXCEPT !.policy = {chk}, !.stmts = @ + 1], 400, "AttributeError")
    ELSE [q EXCEPT !.policy = {chk}, !.stmts = @ + 1, !.obj = found, !.pc = "commit"]

\* update_user, lines 119-128: the checks of the body, then the query by id
UpdateChecks(q, chk, found) ==
    IF q.password1 # q.password2
    THEN Done(q, 400, "Passwords do not match")
    ELSE IF Weak(chk)
    THEN Done([q EXCEPT !.policy = {chk}], 400, "Weak password")
    ELSE IF found = {}
    THEN Done([q EXCEPT !.policy = {chk}, !.stmts = @ + 1], 400, "AttributeError")
    ELSE [q EXCEPT !.policy = {chk}, !.stmts = @ + 1, !.obj = found, !.pc = "commit"]

UpdateUserQuery(r, T) ==
    /\ At(r, "update_user", "handler")
    /\ \E chk \in T.policies :
          Set(r, UpdateChecks(req[r], chk, UsersById(Uid(r))))
    /\ UNCHANGED <<db, now, tz, issued>>

\* update_user, line 129: the UPDATE of db.commit() writes the columns whose
\* value differs from the loaded one (the hash always does), by primary key
UpdateUserCommit(r) ==
    /\ At(r, "update_user", "commit")
    /\ LET q == [req[r] EXCEPT !.stmts = @ + 1]
           old == CHOOSE u \in q.obj : TRUE
           row == UsersById(old.id)
           cur == CHOOSE u \in row : TRUE
           name == IF q.username # old.username THEN q.username ELSE cur.username
       IN  IF row = {}
           THEN Set(r, Done(q, 400, "StaleDataError")) /\ UNCHANGED db
           ELSE IF q.username # old.username /\ UniqueViolation(old.id, q.username)
           THEN Set(r, Done(q, 400, "IntegrityError")) /\ UNCHANGED db
           ELSE /\ users' = (users \ row) \cup
                              {[id |-> old.id, username |-> name,
                                password |-> Hash(q.password1)]}
                /\ Set(r, [q EXCEPT !.pc = "refresh"])
                /\ UNCHANGED <<todos, nextUid, nextTid>>
    /\ UNCHANGED <<now, tz, issued>>

\* update_user, lines 130-131: db.refresh reloads the row, the username returns
UpdateUserRefresh(r) ==
    /\ At(r, "update_user", "refresh")
    /\ LET q == [req[r] EXCEPT !.stmts = @ + 1]
           row == UsersById(Uid(r))
       IN  Set(r, IF row = {} THEN Done(q, 400, "InvalidRequestError")
                  ELSE [Done(q, 200, NULL) EXCEPT
                          !.ruser = (CHOOSE u \in row : TRUE).username])
    /\ UNCHANGED <<db, now, tz, issued>>

\* DELETE /auth/delete arrives: get_db and get_current_user
DeleteUserArrive(r, T) ==
    Arrive(r, [Idle EXCEPT !.kind = "delete_user"], T)

\* delete_user, lines 152-153: the query by id; db.delete(None) raises
DeleteUserQuery(r) ==
    /\ At(r, "delete_user", "handler")
    /\ LET q == [req[r] EXCEPT !.stmts = @ + 1]
           row == UsersById(Uid(r))
       IN  Set(r, IF row = {} THEN Done(q, 400, "UnmappedInstanceError")
                  ELSE [q EXCEPT !.obj = row, !.pc = "flush"])
    /\ UNCHANGED <<db, now, tz, issued>>

\* delete_user, line 154, the flush of db.commit(): the cascade
\* ("all, delete-orphan") first loads the user's todos
DeleteUserFlush(r) ==
    /\ At(r, "delete_user", "flush")
    /\ Set(r, [req[r] EXCEPT !.stmts = @ + 1, !.loaded = ListOf(Uid(r)),
                              !.pc = "commit"])
    /\ UNCHANGED <<db, now, tz, issued>>

\* delete_user, lines 154-155: the DELETEs of the loaded todos and of the user
\* (a DELETE that matches no row only warns), then COMMIT
DeleteUserCommit(r) ==
    /\ At(r, "delete_user", "commit")
    /\ LET q == [req[r] EXCEPT !.stmts = @ + 1]
           old == CHOOSE u \in q.obj : TRUE
           gone == {t \in todos : \E l \in q.loaded : l.id = t.id}
       IN  IF UsersById(old.id) # {} /\ FkDeleteViolation(old.id, todos \ gone)
           THEN Set(r, Done(q, 400, "IntegrityError")) /\ UNCHANGED db
           ELSE /\ todos' = todos \ gone
                /\ users' = users \ UsersById(old.id)
                /\ Set(r, [Done(q, 200, NULL) EXCEPT !.ruser = old.username])
                /\ UNCHANGED <<nextUid, nextTid>>
    /\ UNCHANGED <<now, tz, issued>>

(* --------------------------- routers/todo.py -------------------------- *)

TodoIds == 1..MaxTodos

\* GET /todos/list
FetchAllArrive(r, T) == Arrive(r, [Idle EXCEPT !.kind = "list"], T)

FetchAll(r) ==
    /\ At(r, "list", "handler")
    /\ Set(r, [Done(req[r], 200, NULL) EXCEPT !.stmts = @ + 1,
                                              !.rtodos = ListOf(Uid(r))])
    /\ UNCHANGED <<db, now, tz, issued>>

\* GET /todos/completed
FetchCompletedArrive(r, T) == Arrive(r, [Idle EXCEPT !.kind = "completed"], T)

FetchCompleted(r) ==
    /\ At(r, "completed", "handler")
    /\ Set(r, [Done(req[r], 200, NULL) EXCEPT
                  !.stmts = @ + 1,
                  !.rtodos = {t \in ListOf(Uid(r)) : t.completed = TRUE}])
    /\ UNCHANGED <<db, now, tz, issued>>

\* GET /todos/pending
FetchPendingArrive(r, T) == Arrive(r, [Idle EXCEPT !.kind = "pending"], T)

FetchPending(r) ==
    /\ At(r, "pending", "handler")
    /\ Set(r, [Done(req[r], 200, NULL) EXCEPT
                  !.stmts = @ + 1,
                  !.rtodos = {t \in ListOf(Uid(r)) : t.completed = FALSE}])
    /\ UNCHANGED <<db, now, tz, issued>>

\* `if not query.first(): raise HTTPException(404)`, the first statement of
\* get_todo, update_todo, mark_as_completed and delete_todo
FirstQuery(r, kind) ==
    /\ At(r, kind, "handler")
    /\ LET q == [req[r] EXCEPT !.stmts = @ + 1]
       IN  Set(r, IF Owned(q.todo_id, Uid(r)) = {}
                  THEN Done(q, 404, "Todo not found")
                  ELSE [q EXCEPT !.pc = "query2"])
    /\ UNCHANGED <<db, now, tz, issued>>

\* GET /todos/{todo_id}
GetTodoArrive(r, T) ==
    \E tid \in TodoIds :
        Arrive(r, [Idle EXCEPT !.kind = "get_todo", !.todo_id = tid], T)

GetTodoFirst(r) == FirstQuery(r, "get_todo")

\* get_todo, lines 100-101: the second query.first() is the response; None
\* fails the response model
GetTodoSecond(r) ==
    /\ At(r, "get_todo", "query2")
    /\ LET q == [req[r] EXCEPT !.stmts = @ + 1]
           row == Owned(q.todo_id, Uid(r))
       IN  Set(r, IF row = {} THEN Done(q, 500, "ResponseValidationError")
                  ELSE [Done(q, 200, NULL) EXCEPT !.rtodos = row])
    /\ UNCHANGED <<db, now, tz, issued>>

\* PATCH /todos/{todo_id}
UpdateTodoArrive(r, T) ==
    \E tid \in TodoIds, task \in T.tasks \cup {NULL}, c \in {{}, {TRUE}, {FALSE}} :
        Arrive(r, [Idle EXCEPT !.kind = "update_todo", !.todo_id = tid,
                               !.task = task, !.completed = c], T)

UpdateTodoFirst(r) == FirstQuery(r, "update_todo")

\* (variant: every supplied field is set)
PatchedAnySupplied(row, task, completed) ==
    [row EXCEPT !.task = IF task # NULL THEN task ELSE @,
                !.completed = IF completed # {} THEN TRUE \in completed ELSE @]

\* update_todo, lines 128-131: `if todo.task:` and `if todo.completed:` set
\* the attribute only for a truthy value
Patched(row, task, completed) ==
    [row EXCEPT !.task = IF task # NULL /\ task # "" THEN task ELSE @,
                !.completed = IF completed = {TRUE} THEN TRUE ELSE @]

\* update_todo, lines 127-131: the second query.first() loads the row; on
\* None the body raises (AttributeError, or refresh's error)
UpdateTodoSecond(r) ==
    /\ At(r, "update_todo", "query2")
    /\ LET q == [req[r] EXCEPT !.stmts = @ + 1]
           row == Owned(q.todo_id, Uid(r))
       IN  Set(r, IF row = {} THEN Done(q, 400, "AttributeError")
                  ELSE [q EXCEPT !.obj = row, !.pc = "commit"])
    /\ UNCHANGED <<db, now, tz, issued>>

\* the UPDATE of a flush: by primary key, the columns of `new` that differ
\* from the loaded row `old`; no statement when none differs, StaleDataError
\* when the row is gone
FlushTodo(r, q, old, new) ==
    LET row == {t \in todos : t.id = old.id}
        cur == CHOOSE t \in row : TRUE
    IN  IF new = old
        THEN Set(r, [q EXCEPT !.pc = "refresh"]) /\ UNCHANGED db
        ELSE IF row = {}
        THEN Set(r, Done([q EXCEPT !.stmts = @ + 1], 400, "StaleDataError"))
             /\ UNCHANGED db
        ELSE /\ todos' = (todos \ row) \cup
                          {[cur EXCEPT
                              !.task = IF new.task # old.task THEN new.task ELSE @,
                              !.completed = IF new.completed # old.completed
                                            THEN new.completed ELSE @]}
             /\ Set(r, [q EXCEPT !.stmts = @ + 1, !.pc = "refresh"])
             /\ UNCHANGED <<users, nextUid, nextTid>>

\* db.refresh(obj); return obj : the row is reloaded by primary key
RefreshTodo(r, kind, ok) ==
    /\ At(r, kind, "refresh")
    /\ LET q == [req[r] EXCEPT !.stmts = @ + 1]
           old == CHOOSE t \in q.obj : TRUE
           row == {t \in todos : t.id = old.id}
       IN  Set(r, IF row = {} THEN Done(q, 400, "InvalidRequestError")
                  ELSE [Done(q, ok, NULL) EXCEPT !.rtodos = row])
    /\ UNCHANGED <<db, now, tz, issued>>

\* update_todo, line 132
UpdateTodoCommit(r) ==
    /\ At(r, "update_todo", "commit")
    /\ LET old == CHOOSE t \in req[r].obj : TRUE
       IN  FlushTodo(r, req[r], old, Patched(old, req[r].task, req[r].completed))
    /\ UNCHANGED <<now, tz, issued>>

\* update_todo, lines 133-134
UpdateTodoRefresh(r) == RefreshTodo(r, "update_todo", 200)

\* POST /todos
CreateTodoArrive(r, T) ==
    /\ TodoRoom
    /\ \E task \in T.tasks :
          Arrive(r, [Idle EXCEPT !.kind = "create_todo", !.task = task], T)

\* the owner create_todo stores: user["id"]
OwnerOfNew(q) == (CHOOSE i \in q.ident : TRUE).id

\* create_todo, lines 155-157: the INSERT of db.commit()
CreateTodoCommit(r) ==
    /\ At(r, "create_todo", "handler")
    /\ LET q == [req[r] EXCEPT !.stmts = @ + 1]
           new == [id |-> nextTid, task |-> q.task, completed |-> FALSE,
                   user_id |-> OwnerOfNew(q)]
       IN  IF FkInsertViolation(new.user_id)
           THEN Set(r, Done(q, 400, "IntegrityError")) /\ UNCHANGED db
           ELSE /\ todos' = todos \cup {new}
                /\ nextTid' = nextTid + 1
                /\ Set(r, [q EXCEPT !.obj = {new}, !.pc = "refresh"])
                /\ UNCHANGED <<users, nextUid>>
    /\ UNCHANGED <<now, tz, issued>>

\* create_todo, lines 158-159
CreateTodoRefresh(r) == RefreshTodo(r, "create_todo", 201)

\* POST /todos/toggle_complete/{todo_id}
ToggleArrive(r, T) ==
    \E tid \in TodoIds :
        Arrive(r, [Idle EXCEPT !.kind = "toggle", !.todo_id = tid], T)

ToggleFirst(r) == FirstQuery(r, "toggle")

\* mark_as_completed, lines 185-189: the second query.first() loads the row
ToggleSecond(r) ==
    /\ At(r, "toggle", "query2")
    /\ LET q == [req[r] EXCEPT !.stmts = @ + 1]
           row == Owned(q.todo_id, Uid(r))
       IN  Set(r, IF row = {} THEN Done(q, 400, "AttributeError")
                  ELSE [q EXCEPT !.obj = row, !.pc = "commit"])
    /\ UNCHANGED <<db, now, tz, issued>>

\* mark_as_completed, lines 186-190: the flag of the loaded row is negated
ToggleCommit(r) ==
    /\ At(r, "toggle", "commit")
    /\ LET old == CHOOSE t \in req[r].obj : TRUE
       IN  FlushTodo(r, req[r], old, [old EXCEPT !.completed = ~old.completed])
    /\ UNCHANGED <<now, tz, issued>>

\* mark_as_completed, lines 191-192
ToggleRefresh(r) == RefreshTodo(r, "toggle", 200)

\* DELETE /todos/{todo_id}
DeleteTodoArrive(r, T) ==
    \E tid \in TodoIds :
        Arrive(r, [Idle EXCEPT !.kind = "delete_todo", !.todo_id = tid], T)

DeleteTodoFirst(r) == FirstQuery(r, "delete_todo")

\* delete_todo, lines 216-217: the second query.first(); db.delete(None) raises
DeleteTodoSecond(r) ==
    /\ At(r, "delete_todo", "query2")
    /\ LET q == [req[r] EXCEPT !.stmts = @ + 1]
           row == Owned(q.todo_id, Uid(r))
       IN  Set(r, IF row = {} THEN Done(q, 400, "UnmappedInstanceError")
                  ELSE [q EXCEPT !.obj = row, !.pc = "commit"])
    /\ UNCHANGED <<db, now, tz, issued>>

\* delete_todo, lines 218-219: the DELETE by primary key (no row: a warning)
DeleteTodoCommit(r) ==
    /\ At(r, "delete_todo", "commit")
    /\ LET q == [req[r] EXCEPT !.stmts = @ + 1]
           old == CHOOSE t \in q.obj : TRUE
       IN  /\ todos' = {t \in todos : t.id # old.id}
           /\ Set(r, [Done(q, 200, NULL) EXCEPT !.rtodos = q.obj])
    /\ UNCHANGED <<users, nextUid, nextTid, now, tz, issued>>

(* ------------------------------ environment --------------------------- *)

\* time passes
Tick ==
    /\ now < MaxTime
    /\ now' = now + 1
    /\ UNCHANGED <<db, tz, issued, req>>

\* the client has its response; the slot serves the next request
Recycle(r) ==
    /\ req[r].pc = "done"
    /\ Set(r, Idle)
    /\ UNCHANGED <<db, now, tz, issued>>

\* what the clients of a run send: names, passwords and the zxcvbn verdicts
\* they get, task texts, and the tokens they make up themselves
AnyTraffic ==
    [names |-> Names, passwords |-> Passwords, policies |-> PolicyResults,
     tasks |-> Tasks, forged |-> Crafted]

\* clients that send strong, matching passwords and only tokens they were given
PlainTraffic ==
    [names |-> Names, passwords |-> {"p1"},
     policies |-> {[score |-> 4, warning |-> "", suggestions |-> <<>>]},
     tasks |-> {"t1"}, forged |-> {}]

\* accounts over time: one request at a time, any traffic, the clock runs
NextTime ==
    \/ Tick
    \/ \E r \in {1} :
          \/ Recycle(r)
          \/ get_user(r, AnyTraffic)
          \/ Register(r, AnyTraffic) \/ RegisterCommit(r)
          \/ login(r, AnyTraffic)
          \/ DeleteUserArrive(r, AnyTraffic) \/ DeleteUserQuery(r)
          \/ DeleteUserFlush(r) \/ DeleteUserCommit(r)

SpecTime == Init /\ [][NextTime]_vars

\* register and update, one request at a time, any traffic
NextPolicy ==
    \E r \in {1} :
        \/ Recycle(r)
        \/ Register(r, AnyTraffic) \/ RegisterCommit(r)
        \/ UpdateUserArrive(r, AnyTraffic) \/ UpdateUserQuery(r, AnyTraffic)
        \/ UpdateUserCommit(r) \/ UpdateUserRefresh(r)

SpecPolicy == Init /\ [][NextPolicy]_vars

\* concurrent requests on accounts
NextUsers ==
    \E r \in Reqs :
        \/ Recycle(r)
        \/ Register(r, PlainTraffic) \/ RegisterCommit(r)
        \/ UpdateUserArrive(r, PlainTraffic) \/ UpdateUserQuery(r, PlainTraffic)
        \/ UpdateUserCommit(r) \/ UpdateUserRefresh(r)
        \/ DeleteUserArrive(r, PlainTraffic) \/ DeleteUserQuery(r)
        \/ DeleteUserFlush(r) \/ DeleteUserCommit(r)

SpecUsers == Init /\ [][NextUsers]_vars

\* one account name, registered again after each deletion
CascadeTraffic ==
    [names |-> {"alice"}, passwords |-> {"p1"},
     policies |-> {[score |-> 4, warning |-> "", suggestions |-> <<>>]},
     tasks |-> {"t1"}, forged |-> {}]

\* concurrent requests on an account and its todos
NextCascade ==
    \E r \in Reqs :
        \/ Recycle(r)
        \/ Register(r, CascadeTraffic) \/ RegisterCommit(r)
        \/ DeleteUserArrive(r, CascadeTraffic) \/ DeleteUserQuery(r)
        \/ DeleteUserFlush(r) \/ DeleteUserCommit(r)
        \/ CreateTodoArrive(r, CascadeTraffic) \/ CreateTodoCommit(r)
        \/ CreateTodoRefresh(r)
        \/ DeleteTodoArrive(r, CascadeTraffic) \/ DeleteTodoFirst(r)
        \/ DeleteTodoSecond(r) \/ DeleteTodoCommit(r)

SpecCascade == Init /\ [][NextCascade]_vars

\* registrations only, concurrently, any traffic
NextRace ==
    \E r \in Reqs :
        \/ Recycle(r)
        \/ Register(r, AnyTraffic) \/ RegisterCommit(r)

SpecRace == Init /\ [][NextRace]_vars

\* the todo endpoints, one request at a time
TodoTraffic ==
    [names |-> Names, passwords |-> {"p1"},
     policies |-> {[score |-> 4, warning |-> "", suggestions |-> <<>>]},
     tasks |-> Tasks, forged |-> {NoToken}]

NextTodos ==
    \E r \in {1} :
          \/ Recycle(r)
          \/ Register(r, TodoTraffic) \/ RegisterCommit(r)
          \/ FetchAllArrive(r, TodoTraffic) \/ FetchAll(r)
          \/ FetchCompletedArrive(r, TodoTraffic) \/ FetchCompleted(r)
          \/ FetchPendingArrive(r, TodoTraffic) \/ FetchPending(r)
          \/ GetTodoArrive(r, TodoTraffic) \/ GetTodoFirst(r) \/ GetTodoSecond(r)
          \/ UpdateTodoArrive(r, TodoTraffic) \/ UpdateTodoFirst(r)
          \/ UpdateTodoSecond(r) \/ UpdateTodoCommit(r) \/ UpdateTodoRefresh(r)
          \/ CreateTodoArrive(r, TodoTraffic) \/ CreateTodoCommit(r)
          \/ CreateTodoRefresh(r)
          \/ ToggleArrive(r, TodoTraffic) \/ ToggleFirst(r) \/ ToggleSecond(r)
          \/ ToggleCommit(r) \/ ToggleRefresh(r)
          \/ DeleteTodoArrive(r, TodoTraffic) \/ DeleteTodoFirst(r)
          \/ DeleteTodoSecond(r) \/ DeleteTodoCommit(r)

SpecTodos == Init /\ [][NextTodos]_vars

\* clients that send strong passwords, matching or not, and only tokens
\* they were given
AccountTraffic ==
    [names |-> Names, passwords |-> Passwords,
     policies |-> {[score |-> 4, warning |-> "", suggestions |-> <<>>]},
     tasks |-> {"t1"}, forged |-> {}]

\* accounts that are renamed, one request at a time, the clock runs
NextAccounts ==
    \/ Tick
    \/ \E r \in {1} :
          \/ Recycle(r)
          \/ get_user(r, AccountTraffic)
          \/ Register(r, AccountTraffic) \/ RegisterCommit(r)
          \/ login(r, AccountTraffic)
          \/ UpdateUserArrive(r, AccountTraffic) \/ UpdateUserQuery(r, AccountTraffic)
          \/ UpdateUserCommit(r) \/ UpdateUserRefresh(r)
          \/ DeleteUserArrive(r, AccountTraffic) \/ DeleteUserQuery(r)
          \/ DeleteUserFlush(r) \/ DeleteUserCommit(r)

SpecAccounts == Init /\ [][NextAccounts]_vars

\* concurrent logins and updates of accounts
NextLogin ==
    \E r \in Reqs :
        \/ Recycle(r)
        \/ Register(r, AccountTraffic) \/ RegisterCommit(r)
        \/ login(r, AccountTraffic)
        \/ UpdateUserArrive(r, AccountTraffic) \/ UpdateUserQuery(r, AccountTraffic)
        \/ UpdateUserCommit(r) \/ UpdateUserRefresh(r)

SpecLogin == Init /\ [][NextLogin]_vars

\* one account and its todos, toggled concurrently
NextToggle ==
    \E r \in Reqs :
        \/ Recycle(r)
        \/ Register(r, CascadeTraffic) \/ RegisterCommit(r)
        \/ CreateTodoArrive(r, CascadeTraffic) \/ CreateTodoCommit(r)
        \/ CreateTodoRefresh(r)
        \/ ToggleArrive(r, CascadeTraffic) \/ ToggleFirst(r) \/ ToggleSecond(r)
        \/ ToggleCommit(r) \/ ToggleRefresh(r)

SpecToggle == Init /\ [][NextToggle]_vars

(* ------------------------------- claims ------------------------------- *)

\* the endpoints behind auth_dependency
Protected ==
    {"get_user", "update_user", "delete_user", "list", "completed", "pending",
     "get_todo", "update_todo", "create_todo", "toggle", "delete_todo"}

\* the request of slot r arrives in this step
Arrives(r) == req[r].pc = "idle" /\ req'[r].pc # "idle"

\* the request of slot r gets its response in this step
Responds(r) == req[r].pc # "done" /\ req'[r].pc = "done"

\* C1: in every reachable state, whatever register, update_user and
\* delete_user requests ran and however they interleaved, no two rows of
\* users have the same username.
C1_UniqueUsername ==
    \A u \in users, v \in users : u.username = v.username => u = v

\* two accounts exist and an update_user that asked for the other one's name
\* was refused by the unique index
C1_Witness ==
    /\ Cardinality(users) = 2
    /\ \E r \in Reqs : /\ req[r].kind = "update_user"
                        /\ req[r].detail = "IntegrityError"

C3_ResolvedIff ==
    [][\A r \in Reqs :
         (Arrives(r) /\ req'[r].kind \in Protected) =>
            LET q == req'[r]
                tok == q.token
                good == /\ tok.sig = "ok"
                        /\ tok.exp >= now
                        /\ tok.sub # NULL /\ tok.id # NoId
                        /\ \E u \in users : u.id = tok.id
            IN  /\ good => /\ q.ident = {[username |-> tok.sub, id |-> tok.id]}
                            /\ q.status # 401
                /\ ~good => /\ q.ident = {}
                             /\ q.status = 401 /\ q.pc = "done"]_vars

\* a token of an existing user, presented after its expiry, was refused
C3_Witness ==
    \E r \in Reqs :
        /\ req[r].status = 401
        /\ req[r].token \in issued
        /\ req[r].token.exp < now
        /\ UsersById(req[r].token.id) # {}
        /\ tz = 0

\* C4: GET /auth/ with an unexpired token the server issued returns the
\* token's username while the account of its id exists; once the account is
\* deleted it stays deleted, and every request presenting the token is
\* answered 401.
C4_DeletedUserRejected ==
    [][/\ \A tok \in issued :
            UsersById(tok.id) = {} => {u \in users' : u.id = tok.id} = {}
       /\ \A r \in Reqs :
            ( /\ Arrives(r) /\ req'[r].kind \in Protected
              /\ req'[r].token \in issued /\ req'[r].token.exp >= now ) =>
               LET q == req'[r]
               IN  IF UsersById(q.token.id) = {}
                   THEN q.status = 401 /\ q.pc = "done"
                   ELSE q.kind = "get_user" =>
                          q.status = 200 /\ q.ruser = q.token.sub]_vars

\* GET /auth/ with the unexpired token of a deleted account was answered 401
C4_Witness ==
    \E r \in Reqs :
        /\ req[r].kind = "get_user" /\ req[r].status = 401
        /\ req[r].token \in issued /\ req[r].token.exp >= now
        /\ UsersById(req[r].token.id) = {}

\* the statements the handler itself ran (get_current_user's lookup apart)
HandlerStmts(q) == IF q.kind \in Protected THEN q.stmts - 1 ELSE q.stmts

\* a register or update_user request that got past identity resolution with
\* password1 # password2 is answered in this step
MismatchAnswered(r) ==
    /\ Responds(r)
    /\ req'[r].kind \in {"register", "update_user"}
    /\ req'[r].status # 401
    /\ req'[r].password1 # req'[r].password2

TodoKinds ==
    {"list", "completed", "pending", "get_todo", "update_todo", "create_todo",
     "toggle", "delete_todo"}

\* C7: a step of a todo request under identity A changes, adds, removes and
\* returns only todos whose user_id is A.id, create_todo stores user_id =
\* A.id, and a get/patch/toggle/delete naming another user's todo is
\* answered 404 with every todo unchanged.
C7_OwnerScoped ==
    [][\A r \in Reqs :
         (req'[r] # req[r] /\ req'[r].kind \in TodoKinds /\ req'[r].ident # {}) =>
            LET q == req'[r]
                A == CHOOSE i \in q.ident : TRUE
            IN  /\ \A t \in (todos \ todos') \cup (todos' \ todos) : t.user_id = A.id
                /\ \A t \in q.rtodos : t.user_id = A.id
                /\ (q.kind = "create_todo" /\ nextTid' # nextTid) =>
                      \E t \in todos' : t.id = nextTid /\ t.user_id = A.id
                /\ ( /\ req[r].pc = "handler"
                     /\ q.kind \in {"get_todo", "update_todo", "toggle", "delete_todo"}
                     /\ \E t \in todos : t.id = q.todo_id /\ t.user_id # A.id )
                   => (q.pc = "done" /\ q.status = 404 /\ todos' = todos)]_vars

\* a request naming a todo of another user was answered 404
C7_Witness ==
    \E r \in Reqs :
        /\ req[r].kind \in {"get_todo", "update_todo", "toggle", "delete_todo"}
        /\ req[r].status = 404
        /\ \E t \in todos, i \in req[r].ident :
              t.id = req[r].todo_id /\ t.user_id # i.id

\* C8: every todo's user_id is the id of an existing user, in every state
\* and under every interleaving of delete_user and create_todo; after a
\* delete_user answered 200 neither the user nor a todo of theirs remains.
C8_NoOrphanTodos ==
    [][/\ \A t \in todos' : \E u \in users' : u.id = t.user_id
       /\ \A r \in Reqs :
            (Responds(r) /\ req'[r].kind = "delete_user" /\ req'[r].status = 200) =>
               /\ \A u \in users' : u.id # Uid(r)
               /\ \A t \in todos' : t.user_id # Uid(r)]_vars

\* a delete_user whose cascade had loaded the todos before a concurrent
\* create_todo committed was refused by the foreign key
C8_Witness ==
    \E r \in Reqs :
        /\ req[r].kind = "delete_user"
        /\ req[r].status = 400 /\ req[r].detail = "IntegrityError"

\* C9 as stated: the expiry of a token is fixed at issuance as now + TTL;
\* identity resolution refuses the token at every later time and, for an
\* existing user, accepts it at every time up to it.
C9_ExpiryIsIssuePlusTTL ==
    [][/\ \A tok \in issued' \ issued :
            tok.exp = now + ACCESS_TOKEN_EXPIRE_MINUTES
       /\ \A r \in Reqs :
            (Arrives(r) /\ req'[r].kind \in Protected /\ req'[r].token \in issued) =>
               LET q == req'[r]
               IN  /\ now > q.token.exp => q.status = 401
                   /\ (now <= q.token.exp /\ UsersById(q.token.id) # {})
                         => q.status # 401]_vars

\* C10 as stated: the token a successful register or login returns, presented
\* at once, resolves to the {username, id} of the user just created or
\* authenticated.
C10_FreshTokenResolves ==
    [][\A r \in Reqs :
         ( /\ Responds(r) /\ req'[r].kind \in {"register", "login"}
           /\ req'[r].status \in {200, 201} ) =>
            \E tok \in req'[r].rtoken :
               /\ tok.sig = "ok" /\ ~(tok.exp < now')
               /\ \E u \in users' : /\ u.username = req'[r].username
                                     /\ tok.sub = u.username /\ tok.id = u.id]_vars

\* the user a login with that username and password is granted, if any
LogsInAs(name, password) ==
    {u \in users : u.username = name /\ u.password = Hash(password)}

\* C11 as stated: login issues a token only when a user with the supplied
\* username exists and the supplied password verifies against the hash
\* stored now; otherwise it answers 400 and issues no token.  Once the
\* commit of an update_user has succeeded, the pair it asked for logs in as
\* the caller, and no other username and no other password does.
C11_LoginChecksStoredHash ==
    [][/\ \A r \in Reqs :
            (Responds(r) /\ req'[r].kind = "login") =>
               LET q == req'[r]
                   match == LogsInAs(q.username, q.password1)
               IN  IF match # {}
                   THEN /\ q.status = 200
                        /\ \E tok \in q.rtoken :
                              /\ issued' = issued \cup {tok}
                              /\ \E u \in match : tok.id = u.id /\ tok.sub = u.username
                   ELSE /\ q.status = 400 /\ q.rtoken = {} /\ issued' = issued
       /\ \A r \in Reqs :
            (At(r, "update_user", "commit") /\ req'[r].pc = "refresh") =>
               \A n \in Names, p \in Passwords :
                  (\E u \in LogsInAs(n, p)' : u.id = Uid(r))
                     <=> (n = req[r].username /\ p = req[r].password1)]_vars

UpdateCommits(r) == At(r, "update_user", "commit") /\ req'[r].pc = "refresh"

\* C13 as stated: the commit of a successful update_user leaves the caller's
\* record with the same id, the requested username and the hash of the
\* requested password, and every other user record and every todo as they
\* were; an update_user that fails (mismatch, weak password, or a username
\* another user has) is answered 400 and changes no record.
C13_UpdateReplacesBoth ==
    [][\A r \in Reqs :
         (req'[r] # req[r] /\ req'[r].kind = "update_user") =>
            LET q == req'[r]
            IN  /\ UpdateCommits(r) =>
                      /\ {u \in users' : u.id = Uid(r)} =
                            {[id |-> Uid(r), username |-> q.username,
                              password |-> Hash(q.password1)]}
                      /\ {u \in users' : u.id # Uid(r)} = {u \in users : u.id # Uid(r)}
                      /\ todos' = todos
                /\ ~UpdateCommits(r) => (users' = users /\ todos' = todos)
                /\ (q.pc = "done" /\ q.ident # {} /\ q.status # 200) => q.status = 400
                /\ ( /\ At(r, "update_user", "commit")
                     /\ \E u \in users : u.username = q.username /\ u.id # Uid(r) )
                   => (q.pc = "done" /\ q.status = 400)]_vars

\* C14 as stated: a step of the handler of update_user or delete_user taken
\* when no user has the caller's id ends the request with an error and
\* changes no record; of two delete_user requests that both resolved the
\* same account, exactly one is answered 200.
C14_MissingUserNotFound ==
    [][/\ \A r \in Reqs :
            ( /\ req[r].kind \in {"update_user", "delete_user"}
              /\ req[r].pc \notin {"idle", "done"}
              /\ req'[r] # req[r]
              /\ UsersById(Uid(r)) = {} ) =>
               /\ req'[r].pc = "done"
               /\ req'[r].status \in {400, 404}
               /\ UNCHANGED db
       /\ \A r1 \in Reqs, r2 \in Reqs :
            ( /\ r1 # r2
              /\ req'[r1].kind = "delete_user" /\ req'[r2].kind = "delete_user"
              /\ req'[r1].pc = "done" /\ req'[r2].pc = "done"
              /\ req'[r1].ident # {} /\ req'[r1].ident = req'[r2].ident ) =>
               (req'[r1].status = 200) # (req'[r2].status = 200)]_vars

\* C15: update_user revokes no token: its commit leaves the issued tokens
\* and the account of the caller's id in place, and a request presenting an
\* unexpired issued token whose id a user has resolves to {sub, id} of the
\* token, whatever username is stored now; every request starts without an
\* identity and resolves one only if a user of the id exists at that moment.
C15_UpdateKeepsTokens ==
    [][/\ \A r \in Reqs :
            UpdateCommits(r) =>
               /\ issued' = issued
               /\ \E u \in users' : u.id = Uid(r)
       /\ \A r \in Reqs :
            (Arrives(r) /\ req'[r].kind \in Protected) =>
               LET q == req'[r]
                   tok == q.token
               IN  /\ req[r].ident = {}
                   /\ q.ident # {} => \E u \in users : u.id = tok.id
                   /\ ( /\ tok \in issued /\ tok.exp >= now
                        /\ \E u \in users : u.id = tok.id ) =>
                         /\ q.ident = {[username |-> tok.sub, id |-> tok.id]}
                         /\ q.status # 401]_vars

\* a token issued before its owner was renamed was presented, unexpired,
\* and resolved
C15_Witness ==
    \E r \in Reqs :
        /\ req[r].kind = "get_user" /\ req[r].status = 200
        /\ req[r].token \in issued /\ req[r].token.exp >= now
        /\ \E u \in users : /\ u.id = req[r].token.id
                             /\ u.username # req[r].token.sub

\* C16: a request being served holds one open session of its own; once it
\* has its response, on every exit path (a normal return, a 4xx of the
\* handler, the 401 of identity resolution, a storage error), its session
\* is closed and holds no object; no session is open without a request.
C16_SessionScoped ==
    \A r \in Reqs :
        /\ req[r].pc = "idle" => req[r].sess = "none"
        /\ req[r].pc \notin {"idle", "done"} => req[r].sess = "open"
        /\ req[r].pc = "done" =>
              /\ req[r].sess = "closed"
              /\ req[r].obj = {} /\ req[r].loaded = {}

\* a request refused by identity resolution and one that ended in a storage
\* error have both closed their sessions
C16_Witness ==
    \E r1 \in Reqs, r2 \in Reqs :
        /\ req[r1].pc = "done" /\ req[r1].status = 401
        /\ req[r1].sess = "closed"
        /\ req[r2].pc = "done" /\ req[r2].detail = "StaleDataError"
        /\ req[r2].sess = "closed"

\* C17 as stated: once the commit of a PATCH /todos/{todo_id} on a todo of the
\* caller has succeeded, each supplied field of the todo has the supplied
\* value (completed: true or false; task: the text) and each omitted field
\* the value it had; the id and the owner are unchanged.
C17_PatchSetsSupplied ==
    [][\A r \in Reqs :
         (At(r, "update_todo", "commit") /\ req'[r].pc = "refresh") =>
            LET q == req[r]
            IN  \E t \in todos, t2 \in todos' :
                   /\ t.id = q.todo_id /\ t2.id = q.todo_id
                   /\ t2.user_id = t.user_id
                   /\ t2.task = IF q.task # NULL THEN q.task ELSE t.task
                   /\ t2.completed = IF q.completed # {}
                                     THEN TRUE \in q.completed
                                     ELSE t.completed]_vars

\* C18 as stated: whenever get_current_user resolves an identity, its
\* username is the username stored now for the user of its id, and GET
\* /auth/ returns that username.
C18_IdentityNameIsStored ==
    [][\A r \in Reqs :
         (Arrives(r) /\ req'[r].kind \in Protected /\ req'[r].ident # {}) =>
            \E i \in req'[r].ident, u \in users :
               /\ u.id = i.id
               /\ u.username = i.username
               /\ req'[r].kind = "get_user" => req'[r].ruser = u.username]_vars

\* C19: a new user never gets an id an issued token carries; a request
\* presenting an issued token resolves to the id of the token or is refused,
\* and is refused (401) when no user has that id, also when a user with the
\* token's username exists; the steps of a todo request change and return
\* only todos of the id of its token.
C19_TokenBoundToAccount ==
    [][/\ \A u \in users' :
            (\A v \in users : v.id # u.id) => \A tok \in issued : tok.id # u.id
       /\ \A r \in Reqs :
            ( /\ Arrives(r) /\ req'[r].kind \in Protected
              /\ req'[r].token \in issued ) =>
               LET q == req'[r]
               IN  /\ \A i \in q.ident : i.id = q.token.id
                   /\ UsersById(q.token.id) = {} =>
                         (q.status = 401 /\ q.pc = "done" /\ q.ident = {})
       /\ \A r \in Reqs :
            ( /\ req'[r] # req[r] /\ req'[r].kind \in TodoKinds
              /\ req'[r].token \in issued ) =>
               /\ \A t \in (todos \ todos') \cup (todos' \ todos) :
                     t.user_id = req'[r].token.id
               /\ \A t \in req'[r].rtodos : t.user_id = req'[r].token.id]_vars

\* the unexpired token of a deleted account was refused while a new account
\* of the same username, with a todo, exists
C19_Witness ==
    \E r \in Reqs :
        /\ req[r].pc = "done" /\ req[r].status = 401
        /\ req[r].token \in issued /\ req[r].token.exp >= now
        /\ UsersById(req[r].token.id) = {}
        /\ \E u \in users :
              /\ u.username = req[r].token.sub
              /\ \E t \in todos : t.user_id = u.id

\* C20 as stated: the commit of every successful toggle_complete request
\* negates the stored completed flag of its todo, whatever other toggle
\* requests are in flight, so that after k successful toggles the flag is
\* the original one for even k and its negation for odd k.
C20_ToggleFlipsOnce ==
    [][\A r \in Reqs :
         (At(r, "toggle", "commit") /\ req'[r].pc = "refresh") =>
            \E t \in todos, t2 \in todos' :
               /\ t.id = req[r].todo_id /\ t2.id = req[r].todo_id
               /\ t2.completed = ~t.completed]_vars

\* C21: GET /todos/list returns exactly the todos whose user_id is the
\* caller's id; /todos/completed returns those of them that are not pending
\* and /todos/pending those that are not completed, each todo being one or
\* the other, so the two results are disjoint and their union is the list;
\* no step of the three requests changes a record.
C21_ListsPartition ==
    [][/\ \A t \in todos : t.completed \in BOOLEAN
       /\ \A r \in Reqs :
            ( /\ req'[r] # req[r]
              /\ req'[r].kind \in {"list", "completed", "pending"} ) =>
               /\ UNCHANGED db
               /\ (Responds(r) /\ req'[r].ident # {}) =>
                     LET q == req'[r]
                         own == {t \in todos : t.user_id = Uid(r)}
                         completed == {t \in own : t.completed = TRUE}
                         pending == {t \in own : t.completed = FALSE}
                     IN  /\ q.status = 200
                         /\ q.kind = "list" => q.rtodos = own
                         /\ q.kind = "completed" =>
                               (q.rtodos = completed /\ q.rtodos = own \ pending)
                         /\ q.kind = "pending" =>
                               (q.rtodos = pending /\ q.rtodos = own \ completed)]_vars

\* /todos/pending returned one of the caller's two todos, the other one
\* being completed
C21_Witness ==
    \E r \in Reqs :
        /\ req[r].kind = "pending" /\ req[r].status = 200
        /\ Cardinality(req[r].rtodos) = 1
        /\ \E i \in req[r].ident, t \in todos :
              t.user_id = i.id /\ t.completed = TRUE

=============================================================================
